---- MODULE Spec2Model ----
(***************************************************************************)
(* A model of package config (src/config/config.go): context discovery    *)
(* and initialisation, and the construction and teardown of the overlay   *)
(* of symbolic links under a mount root.                                   *)
(*                                                                         *)
(* A path string is a sequence of one-character strings, so that the Go   *)
(* string functions the code calls (path.Join, filepath.Split,            *)
(* filepath.Base, strings.TrimRight, strings.HasPrefix) are computed the  *)
(* way Go computes them.  The filesystem is a function from nodes (the    *)
(* sequence of names from the root) to entries; the os calls of the code  *)
(* (Stat, Lstat, Mkdir, MkdirAll, Symlink, RemoveAll, WriteFile) are      *)
(* modelled with the POSIX results ENOENT, ENOTDIR, EEXIST, EISDIR, ELOOP.*)
(* Permissions are not modelled.                                          *)
(***************************************************************************)
EXTENDS Naturals, Sequences, FiniteSets, TLC

VARIABLES fs, calls, last, disc

vars == <<fs, calls, last, disc>>

\* ------------------------------------------------------------ bounds
\* The longest source-path list handed to one MountPoints call.
MaxPaths == 3
\* The number of MountPoints calls in a run of the repeated-call specification.
MaxCalls == 2
\* Symbolic links followed in one path resolution before ELOOP.
MaxSymlinks == 3
\* The longest path string Discover's walk is tracked at; past it the walk
\* is above the filesystem root and every further probe resolves alike.
MaxWalkLen == 6

\* ------------------------------------------------------------ strings
PathSeparator == "/"

GDDirSuffix == <<".", "g", "d">>

EmptyStr == <<>>

RECURSIVE TrimRight(_, _)
\* strings.TrimRight(s, c) for a one-character cutset
TrimRight(s, c) ==
    IF s # <<>> /\ s[Len(s)] = c THEN TrimRight(SubSeq(s, 1, Len(s) - 1), c) ELSE s

RECURSIVE LastIndex(_, _)
\* strings.LastIndex: the last position of c in s, 0 when there is none
LastIndex(s, c) ==
    IF s = <<>> THEN 0
    ELSE IF s[Len(s)] = c THEN Len(s)
    ELSE LastIndex(SubSeq(s, 1, Len(s) - 1), c)

\* filepath.Split: the directory (up to and including the last separator) and
\* the file name after it
Split(s) ==
    LET i == LastIndex(s, PathSeparator)
    IN  <<SubSeq(s, 1, i), SubSeq(s, i + 1, Len(s))>>

HasPrefix(s, pre) ==
    Len(s) >= Len(pre) /\ SubSeq(s, 1, Len(pre)) = pre

IsAbs(s) == s # <<>> /\ s[1] = PathSeparator

RECURSIVE Components(_)
\* the names of a path string: its pieces between separators, empty ones dropped
Components(s) ==
    IF s = <<>> THEN <<>>
    ELSE IF s[1] = PathSeparator THEN Components(Tail(s))
    ELSE LET rest == Tail(s)
             more == Components(rest)
         IN  IF rest = <<>> \/ rest[1] = PathSeparator
             THEN <<(<<s[1]>>)>> \o more
             ELSE <<(<<s[1]>> \o more[1])>> \o Tail(more)

RECURSIVE JoinNames(_)
JoinNames(ns) ==
    IF ns = <<>> THEN <<>>
    ELSE IF Len(ns) = 1 THEN ns[1]
    ELSE ns[1] \o <<PathSeparator>> \o JoinNames(Tail(ns))

DotName == <<".">>

DotDotName == <<".", ".">>

RECURSIVE CleanNames(_, _, _)
\* path.Clean's pass over the names: "." is dropped, ".." cancels the name
\* before it, is dropped at the root and is kept at the front of a relative path
CleanNames(ns, out, rooted) ==
    IF ns = <<>> THEN out
    ELSE LET n == ns[1]
         IN  IF n = DotName THEN CleanNames(Tail(ns), out, rooted)
             ELSE IF n = DotDotName
             THEN IF out # <<>> /\ out[Len(out)] # DotDotName
                  THEN CleanNames(Tail(ns), SubSeq(out, 1, Len(out) - 1), rooted)
                  ELSE IF rooted THEN CleanNames(Tail(ns), out, rooted)
                  ELSE CleanNames(Tail(ns), Append(out, n), rooted)
             ELSE CleanNames(Tail(ns), Append(out, n), rooted)

\* path.Clean
Clean(s) ==
    IF s = <<>> THEN DotName
    ELSE LET rooted == IsAbs(s)
             body == JoinNames(CleanNames(Components(s), <<>>, rooted))
         IN  IF rooted THEN <<PathSeparator>> \o body
             ELSE IF body = <<>> THEN DotName ELSE body

\* path.Join / filepath.Join of two elements: empty elements are ignored, the
\* rest joined by a separator and cleaned
Join(a, b) ==
    IF a = <<>> /\ b = <<>> THEN <<>>
    ELSE IF a = <<>> THEN Clean(b)
    ELSE IF b = <<>> THEN Clean(a)
    ELSE Clean(a \o <<PathSeparator>> \o b)

\* filepath.Base: the last element, trailing separators removed first
Base(s) ==
    IF s = <<>> THEN DotName
    ELSE LET t == TrimRight(s, PathSeparator)
         IN  IF t = <<>> THEN <<PathSeparator>> ELSE Split(t)[2]

\* ------------------------------------------------------------ filesystem
\* A node is the sequence of names from the root; <<>> is the root directory.
\* An entry has a kind ("dir", "file", "link"), a link's target string, a
\* file's data, and by: the MountPoints call (1, 2, ...) that created it, or 0
\* for an entry no MountPoints call created.
Entry(kind, target, data, by) ==
    [kind |-> kind, target |-> target, data |-> data, by |-> by]

DirEntry(by) == Entry("dir", <<>>, "", by)

RootNode == <<>>

\* The working directory relative paths are resolved from.
Cwd == <<(<<"h">>)>>

Parent(node) == IF node = <<>> THEN <<>> ELSE SubSeq(node, 1, Len(node) - 1)

IsPrefix(a, b) == Len(a) <= Len(b) /\ SubSeq(b, 1, Len(a)) = a

Res(err, node) == [err |-> err, node |-> node]

\* The names a path string is resolved through; a trailing separator asks
\* for a directory, as a final "." does.
PathNames(s) ==
    LET ns == Components(s)
    IN  IF ns # <<>> /\ s[Len(s)] = PathSeparator THEN Append(ns, DotName) ELSE ns

StartNode(s) == IF IsAbs(s) THEN RootNode ELSE Cwd

RECURSIVE Walk(_, _, _, _, _)
\* Path resolution from directory cur through the names ns.  follow: whether a
\* symbolic link in the final position is followed (stat) or not (lstat).
Walk(f, cur, ns, fuel, follow) ==
    IF ns = <<>> THEN Res("nil", cur)
    ELSE IF f[cur].kind # "dir" THEN Res("ENOTDIR", cur)
    ELSE LET n == ns[1]
             rest == Tail(ns)
             child == Append(cur, n)
         IN  IF n = DotName THEN Walk(f, cur, rest, fuel, follow)
             ELSE IF n = DotDotName THEN Walk(f, Parent(cur), rest, fuel, follow)
             ELSE IF child \notin DOMAIN f THEN Res("ENOENT", child)
             ELSE IF f[child].kind = "link" /\ (rest # <<>> \/ follow)
             THEN IF fuel = 0 THEN Res("ELOOP", child)
                  ELSE LET t == f[child].target
                       IN  Walk(f, IF IsAbs(t) THEN RootNode ELSE cur,
                                PathNames(t) \o rest, fuel - 1, follow)
             ELSE Walk(f, child, rest, fuel, follow)

\* os.Stat: the entry a path resolves to, symbolic links followed
Stat(f, s) ==
    IF s = <<>> THEN Res("ENOENT", <<>>)
    ELSE Walk(f, StartNode(s), PathNames(s), MaxSymlinks, TRUE)

\* os.Lstat: the same, a symbolic link in the final position not followed
Lstat(f, s) ==
    IF s = <<>> THEN Res("ENOENT", <<>>)
    ELSE Walk(f, StartNode(s), PathNames(s), MaxSymlinks, FALSE)

StatOK(f, s) == Stat(f, s).err = "nil"

IsDirAt(f, r) == r.err = "nil" /\ f[r.node].kind = "dir"

StatIsDir(f, s) == IsDirAt(f, Stat(f, s))

LstatOK(f, s) == Lstat(f, s).err = "nil"

\* os.IsNotExist and os.IsExist of a system error
IsNotExist(err) == err = "ENOENT"

IsExist(err) == err \in {"EEXIST", "ENOTEMPTY"}

Out(err, f) == [err |-> err, fs |-> f]

\* The creation of one entry at path s (mkdir(2), symlink(2)): the directory
\* holding it is resolved with links followed, and the name must be free.
CreateIn(f, dir, name, entry) ==
    IF dir.err # "nil" THEN Out(dir.err, f)
    ELSE IF f[dir.node].kind # "dir" THEN Out("ENOTDIR", f)
    ELSE IF name \in {DotName, DotDotName} \/ Append(dir.node, name) \in DOMAIN f
    THEN Out("EEXIST", f)
    ELSE Out("nil", (Append(dir.node, name) :> entry) @@ f)

CreateNamed(f, s, ns, entry) ==
    IF s = <<>> THEN Out("ENOENT", f)
    ELSE IF ns = <<>> THEN Out("EEXIST", f)
    ELSE CreateIn(f, Walk(f, StartNode(s), SubSeq(ns, 1, Len(ns) - 1),
                          MaxSymlinks, TRUE),
                  ns[Len(ns)], entry)

CreateAt(f, s, entry) == CreateNamed(f, s, Components(s), entry)

\* os.Mkdir
Mkdir(f, s, by) == CreateAt(f, s, DirEntry(by))

\* os.Symlink(oldname, newname)
Symlink(f, oldname, newname, by) ==
    CreateAt(f, newname, Entry("link", oldname, "", by))

RECURSIVE MkdirAll(_, _, _), MkdirParent(_, _, _, _), MkdirAfterParent(_, _, _),
          MkdirOrThere(_, _, _)
\* os.MkdirAll: nothing to do for an existing directory; otherwise the parent
\* is made first, then the directory itself
MkdirAll(f, s, by) ==
    IF StatOK(f, s)
    THEN IF StatIsDir(f, s) THEN Out("nil", f) ELSE Out("ENOTDIR", f)
    ELSE MkdirAfterParent(
             MkdirParent(f, s, LastIndex(TrimRight(s, PathSeparator), PathSeparator), by),
             s, by)

\* the start of the last element: the parent is made when there is one
MkdirParent(f, s, k, by) ==
    IF k > 1 THEN MkdirAll(f, SubSeq(s, 1, k - 1), by) ELSE Out("nil", f)

MkdirAfterParent(up, s, by) ==
    IF up.err # "nil" THEN up
    ELSE MkdirOrThere(up.fs, Mkdir(up.fs, s, by), s)

\* a failed Mkdir is no error when a directory is there
MkdirOrThere(g, mk, s) ==
    IF mk.err = "nil" THEN mk
    ELSE IF IsDirAt(g, Lstat(g, s)) THEN Out("nil", g)
    ELSE Out(mk.err, g)

\* os.RemoveAll: removes the entry at s and everything under it, following no
\* symbolic link; a path that does not exist is no error
RemoveTree(f, s, ls) ==
    IF s = <<>> \/ ls.err = "ENOENT" THEN Out("nil", f)
    ELSE IF ls.err # "nil" THEN Out(ls.err, f)
    ELSE IF ls.node = RootNode THEN Out("EBUSY", f)
    ELSE Out("nil", [n \in {m \in DOMAIN f : ~IsPrefix(ls.node, m)} |-> f[n]])

RemoveAll(f, s) == RemoveTree(f, s, Lstat(f, s))

\* ioutil.WriteFile: creates the file or replaces its data
WriteAt(f, s, st, data) ==
    IF st.err = "nil"
    THEN IF f[st.node].kind = "dir" THEN Out("EISDIR", f)
         ELSE Out("nil", [f EXCEPT ![st.node].data = data])
    ELSE IF st.err = "ENOENT" /\ ~LstatOK(f, s)
    THEN CreateAt(f, s, Entry("file", <<>>, data, 0))
    ELSE Out(st.err, f)

WriteFile(f, s, data) == WriteAt(f, s, Stat(f, s), data)

\* ioutil.ReadFile
ReadAt(f, st) ==
    IF st.err # "nil" THEN [err |-> st.err, data |-> ""]
    ELSE IF f[st.node].kind = "dir" THEN [err |-> "EISDIR", data |-> ""]
    ELSE [err |-> "nil", data |-> f[st.node].data]

ReadFile(f, s) == ReadAt(f, Stat(f, s))

\* ------------------------------------------------------------ config.go
credentialsName ==
    <<"c", "r", "e", "d", "e", "n", "t", "i", "a", "l", "s", ".", "j", "s", "o", "n">>

gdPath(absPath) == Join(absPath, GDDirSuffix)

credentialsPath(absPath) == Join(gdPath(absPath), credentialsName)

mounted_Always(mpt) == TRUE

\* MountPoint.mounted
mounted(mpt) == mpt.CanClean

\* MountPoint.Unmount: the error returned and the filesystem left
Unmount(f, mpt) ==
    IF mounted(mpt) THEN RemoveAll(f, mpt.MountPath) ELSE Out("nil", f)

\* LeastNonExistantRoot's step to the parent:
\* p, _ = filepath.Split(strings.TrimRight(p, PathSeparator))
SplitDir(p) == Split(TrimRight(p, PathSeparator))[1]

LeastLoop_FirstMissing(f, p, lastSeen) ==
    IF p = <<>> \/ StatOK(f, p) THEN lastSeen ELSE p

RECURSIVE LeastLoop(_, _, _)
\* LeastNonExistantRoot's loop, from its state (p, last)
LeastLoop(f, p, lastSeen) ==
    IF p = <<>> THEN lastSeen
    ELSE IF StatOK(f, p) THEN lastSeen
    ELSE LeastLoop(f, SplitDir(p), p)

LeastNonExistantRoot_Self(f, contextAbsPath) ==
    IF StatOK(f, contextAbsPath) THEN <<>> ELSE contextAbsPath

LeastNonExistantRoot(f, contextAbsPath) == LeastLoop(f, contextAbsPath, <<>>)

\* ---- MountPoints
NilMount ==
    [nil |-> TRUE, CreatedMountDir |-> <<>>, ShortestMountRoot |-> <<>>,
     Points |-> <<>>]

Visited_Never(visitors, path) == FALSE

\* the visitors map's lookup
Visited(visitors, path) == path \in visitors

\* !hidden && strings.HasPrefix(base, ".")
HiddenSkip(hidden, base) == ~hidden /\ HasPrefix(base, <<".">>)

\* whether a source whose os.Symlink returned err yields a MountPoint
KeepPoint(err) == err = "nil" \/ IsExist(err)

CanCleanOf_Always(err) == TRUE

\* canClean after os.Symlink returned err
CanCleanOf(err) == err = "nil"

\* relPath: strings.Join of "", contextPath (when not empty) and base by "/"
RelName(contextPath, base) ==
    IF contextPath = <<>> THEN <<"/">> \o base
    ELSE <<"/">> \o contextPath \o <<"/">> \o base

\* One iteration of the loop over paths: the filesystem, the visitors and the
\* MountPoints after it, and what happened to the path.
Skipped(st, path, why) ==
    [st EXCEPT !.visitors = @ \cup {path}, !.fsAt = Append(@, st.fs),
               !.outcome = Append(@, why)]

Linked(st, contextPath, path, base, mountPath, lk) ==
    IF ~KeepPoint(lk.err) THEN Skipped(st, path, "linkfailed")
    ELSE [st EXCEPT
             !.visitors = @ \cup {path},
             !.fsAt = Append(@, st.fs),
             !.outcome = Append(@, IF lk.err = "nil" THEN "created" ELSE "collided"),
             !.fs = lk.fs,
             !.points = Append(@, [AbsPath |-> path,
                                   CanClean |-> CanCleanOf(lk.err),
                                   MountPath |-> mountPath,
                                   Name |-> RelName(contextPath, base)])]

LinkAt(st, id, contextPath, path, base, mountPath) ==
    Linked(st, contextPath, path, base, mountPath,
           Symlink(st.fs, path, mountPath, id))

StepWithBase(st, id, contextPath, contextAbsPath, path, hidden, base) ==
    IF Visited(st.visitors, path) THEN Skipped(st, path, "duplicate")
    ELSE IF ~StatOK(st.fs, path) THEN Skipped(st, path, "missing")
    ELSE IF HiddenSkip(hidden, base) THEN Skipped(st, path, "hidden")
    ELSE LinkAt(st, id, contextPath, path, base, Join(contextAbsPath, base))

MountStep(st, id, contextPath, contextAbsPath, path, hidden) ==
    StepWithBase(st, id, contextPath, contextAbsPath, path, hidden, Base(path))

RECURSIVE MountLoop(_, _, _, _, _, _)
MountLoop(st, id, contextPath, contextAbsPath, paths, hidden) ==
    IF paths = <<>> THEN st
    ELSE MountLoop(MountStep(st, id, contextPath, contextAbsPath, paths[1], hidden),
                   id, contextPath, contextAbsPath, Tail(paths), hidden)

MountResult_Unconditional(points, createdMountDir, contextAbsPath, shortestMountRoot) ==
    IF Len(points) >= 1
    THEN [nil |-> FALSE, CreatedMountDir |-> contextAbsPath,
          ShortestMountRoot |-> shortestMountRoot, Points |-> points]
    ELSE NilMount

MountResult_RootOnly(points, createdMountDir, contextAbsPath, shortestMountRoot) ==
    IF Len(points) >= 1 \/ createdMountDir
    THEN [nil |-> FALSE,
          CreatedMountDir |-> IF createdMountDir THEN contextAbsPath ELSE <<>>,
          ShortestMountRoot |-> IF createdMountDir THEN shortestMountRoot ELSE <<>>,
          Points |-> points]
    ELSE NilMount

\* The Mount returned: nil without MountPoints; the root's bookkeeping only
\* when this call created the root.
MountResult(points, createdMountDir, contextAbsPath, shortestMountRoot) ==
    IF Len(points) >= 1
    THEN [nil |-> FALSE,
          CreatedMountDir |-> IF createdMountDir THEN contextAbsPath ELSE <<>>,
          ShortestMountRoot |-> IF createdMountDir THEN shortestMountRoot ELSE <<>>,
          Points |-> points]
    ELSE NilMount

\* MountPoints: the Mount and the sources returned, the filesystem left, and
\* for each path the filesystem it was processed in and what happened to it.
Returned(end, created, contextAbsPath, shortest, srcs) ==
    [mount |-> MountResult(end.points, created, contextAbsPath, shortest),
     sources |-> srcs, fs |-> end.fs, fsAt |-> end.fsAt, outcome |-> end.outcome]

\* the return before the loop: no Mount
Early(srcs, g) ==
    [mount |-> NilMount, sources |-> srcs, fs |-> g, fsAt |-> <<>>, outcome |-> <<>>]

\* the loop over paths and the return after it
Run(g, id, contextPath, contextAbsPath, paths, hidden, created, shortest, srcs) ==
    Returned(MountLoop([fs |-> g, visitors |-> {}, points |-> <<>>,
                        fsAt |-> <<>>, outcome |-> <<>>],
                       id, contextPath, contextAbsPath, paths, hidden),
             created, contextAbsPath, shortest, srcs)

SourcesOf(sRoot) == IF sRoot # <<>> THEN <<sRoot>> ELSE <<>>

\* the root did not exist: it is made, after its least non-existent root is taken
MakeRoot(id, contextPath, contextAbsPath, paths, hidden, sRoot, mk) ==
    IF mk.err # "nil" THEN Early(SourcesOf(sRoot), mk.fs)
    ELSE Run(mk.fs, id, contextPath, contextAbsPath, paths, hidden, TRUE, sRoot,
             SourcesOf(sRoot))

AfterStat(f, id, contextPath, contextAbsPath, paths, hidden, fErr) ==
    IF fErr = "nil"
    THEN Run(f, id, contextPath, contextAbsPath, paths, hidden, FALSE, <<>>, <<>>)
    ELSE IF ~IsNotExist(fErr) THEN Early(<<>>, f)
    ELSE MakeRoot(id, contextPath, contextAbsPath, paths, hidden,
                  LeastNonExistantRoot(f, contextAbsPath),
                  MkdirAll(f, contextAbsPath, id))

MountPoints(f, id, contextPath, contextAbsPath, paths, hidden) ==
    AfterStat(f, id, contextPath, contextAbsPath, paths, hidden,
              Stat(f, contextAbsPath).err)

\* ---- Initialize
\* Initialize: its four results, and the filesystem left
\* a *Context: nil, or the Context of a root
NilContext == [nil |-> TRUE, AbsPath |-> <<>>]

ContextOf(absPath) == [nil |-> FALSE, AbsPath |-> absPath]

InitRet(pathGD, firstInit, c, err, g) ==
    [pathGD |-> pathGD, firstInit |-> firstInit, c |-> c, err |-> err, fs |-> g]

\* c = &Context{AbsPath: absPath}; err = c.Write()
InitWrite(absPath, pathGD, firstInit, wr) ==
    InitRet(pathGD, firstInit, ContextOf(absPath), wr.err, wr.fs)

InitMkdir(absPath, pathGD, firstInit, mk) ==
    IF mk.err # "nil" THEN InitRet(pathGD, firstInit, NilContext, mk.err, mk.fs)
    ELSE InitWrite(absPath, pathGD, firstInit,
                   WriteFile(mk.fs, credentialsPath(absPath), "emptyCredentials"))

InitAfterStat(f, absPath, pathGD, st) ==
    IF st.err # "nil" /\ ~IsNotExist(st.err) /\ ~IsExist(st.err)
    THEN InitRet(pathGD, FALSE, NilContext, "nil", f)
    ELSE IF st.err = "nil" /\ f[st.node].kind # "dir"
    THEN InitRet(pathGD, FALSE, NilContext, "notADirectory", f)
    ELSE InitMkdir(absPath, pathGD, st.err # "nil" /\ IsNotExist(st.err),
                   MkdirAll(f, pathGD, 0))

InitAt(f, absPath, pathGD) == InitAfterStat(f, absPath, pathGD, Stat(f, pathGD))

Initialize(f, absPath) == InitAt(f, absPath, gdPath(absPath))

\* ---- Discover
\* Context.Read: the error of reading and unmarshalling the credentials
Unmarshal(rd) ==
    IF rd.err # "nil" THEN rd.err
    ELSE IF rd.data = "garbage" THEN "malformedJSON"
    ELSE "nil"

ContextRead(f, absPath) == Unmarshal(ReadFile(f, credentialsPath(absPath)))

DiscoverFound_AnyMarker(f, p) == StatOK(f, gdPath(p))

\* the loop's test: e == nil && info.IsDir()
DiscoverFound(f, p) == StatIsDir(f, gdPath(p))

\* newPath := path.Join(p, "..")
ParentPath(p) == Join(p, DotDotName)

\* ------------------------------------------------------------ inputs
\* The paths of the runs: /w is the context root, /w/.gd its marker directory,
\* /w/.gd/m the mount root; /h/d, /h/.s and /k/d are sources (/h/d and /k/d
\* share a base name, .s is hidden), /h/x does not exist, and the source /w
\* exists in some runs only once the call has made the mount root.
pRoot == <<"/">>

pW == <<"/", "w">>

pGD == <<"/", "w", "/", ".", "g", "d">>

pMnt == <<"/", "w", "/", ".", "g", "d", "/", "m">>

pMntD == <<"/", "w", "/", ".", "g", "d", "/", "m", "/", "d">>

pHome == <<"/", "h">>

pDocs == <<"/", "h", "/", "d">>

pSecret == <<"/", "h", "/", ".", "s">>

pK == <<"/", "k">>

pOther == <<"/", "k", "/", "d">>

pMissing == <<"/", "h", "/", "x">>

FileEntry(data) == Entry("file", <<>>, data, 0)

LinkEntry(target) == Entry("link", target, "", 0)

\* f with an entry at the clean absolute path s
With(f, s, entry) == (Components(s) :> entry) @@ f

BaseFS ==
    With(With(With(With(With((RootNode :> DirEntry(0)),
        pHome, DirEntry(0)), pDocs, DirEntry(0)), pSecret, FileEntry("data")),
        pK, DirEntry(0)), pOther, FileEntry("data"))

WithW == With(BaseFS, pW, DirEntry(0))

WithGD == With(WithW, pGD, DirEntry(0))

WithMnt == With(WithGD, pMnt, DirEntry(0))

\* The filesystems a MountPoints run starts in: the mount root missing with
\* none, one or two of its ancestors, under a file, itself a file, a link to a
\* directory, a dangling link or a directory, then empty or holding an entry named d already.
MountFS ==
    { BaseFS,
      With(BaseFS, pW, FileEntry("data")),
      WithW,
      With(WithW, pGD, FileEntry("data")),
      WithGD,
      With(WithGD, pMnt, FileEntry("data")),
      With(WithGD, pMnt, LinkEntry(pHome)),
      With(WithGD, pMnt, LinkEntry(pMissing)),
      WithMnt,
      With(WithMnt, pMntD, FileEntry("data")),
      With(WithMnt, pMntD, LinkEntry(pOther)),
      With(WithMnt, pMntD, LinkEntry(pMissing)) }

Sources == {pDocs, pSecret, pOther, pMissing, pW}

RECURSIVE SeqsUpTo(_, _)
SeqsUpTo(S, n) ==
    IF n = 0 THEN {<<>>}
    ELSE LET shorter == SeqsUpTo(S, n - 1)
         IN  shorter \cup {Append(q, x) : q \in {t \in shorter : Len(t) = n - 1}, x \in S}

PathLists == SeqsUpTo(Sources, MaxPaths)

\* contextPath of the calls: the context's own root, or a nested one
ContextPaths == {<<>>, <<"c">>}

\* ------------------------------------------------------------ state
\* fs     the filesystem
\* calls  one record for each MountPoints call made: its arguments, the
\*        filesystem before it (pre) and at each path (fsAt), what it returned,
\*        the MountPoints unmounted since (un) and whether the caller has
\*        removed the shortest mount root since
\* last   the last operation and what it returned
\* disc   Discover's activation: where it stands, the path it walks, its result
Idle == [pc |-> "idle"]

NoOp == [op |-> "none"]

InitMount ==
    /\ fs \in MountFS
    /\ calls = <<>>
    /\ last = NoOp
    /\ disc = Idle

\* A call of MountPoints
MountPointsReturns(contextPath, contextAbsPath, paths, hidden, r) ==
    /\ fs' = r.fs
    /\ calls' = Append(calls,
          [contextPath |-> contextPath, contextAbsPath |-> contextAbsPath,
           paths |-> paths, hidden |-> hidden, pre |-> fs, fsAt |-> r.fsAt,
           outcome |-> r.outcome, mount |-> r.mount, sources |-> r.sources,
           un |-> {}, rootRemoved |-> FALSE])
    /\ last' = [op |-> "MountPoints", call |-> Len(calls) + 1]
    /\ UNCHANGED disc

MountPointsCall(contextPath, contextAbsPath, paths, hidden) ==
    MountPointsReturns(contextPath, contextAbsPath, paths, hidden,
        MountPoints(fs, Len(calls) + 1, contextPath, contextAbsPath, paths, hidden))

\* A call of Unmount on the i-th MountPoint that call c returned
UnmountReturns(c, i, r) ==
    /\ fs' = r.fs
    /\ calls' = [calls EXCEPT ![c].un = @ \cup {i}]
    /\ last' = [op |-> "Unmount", call |-> c, point |-> i, err |-> r.err,
                pre |-> fs,
                removedBy |-> {fs[n].by : n \in DOMAIN fs \ DOMAIN r.fs}]
    /\ UNCHANGED disc

UnmountCall(c, i) == UnmountReturns(c, i, Unmount(fs, calls[c].mount.Points[i]))

\* The caller's removal of the shortest mount root of the Mount call c returned
RemoveRootReturns(c, r) ==
    /\ fs' = r.fs
    /\ calls' = [calls EXCEPT ![c].rootRemoved = TRUE]
    /\ last' = [op |-> "RemoveRoot", call |-> c, err |-> r.err]
    /\ UNCHANGED disc

RemoveRootCall(c) ==
    /\ calls[c].mount.ShortestMountRoot # <<>>
    /\ ~calls[c].rootRemoved
    /\ RemoveRootReturns(c, RemoveAll(fs, calls[c].mount.ShortestMountRoot))

\* One MountPoints call and its teardown
NextMount ==
    \/ /\ calls = <<>>
       /\ \E cp \in ContextPaths, paths \in PathLists, hidden \in BOOLEAN :
              MountPointsCall(cp, pMnt, paths, hidden)
    \/ \E c \in 1..Len(calls) :
           \E i \in 1..Len(calls[c].mount.Points) :
               /\ i \notin calls[c].un
               /\ UnmountCall(c, i)
    \/ \E c \in 1..Len(calls) : RemoveRootCall(c)

Spec == InitMount /\ [][NextMount]_vars

\* Repeated calls against the same mount root, and Unmount called at any
\* time, also again, on any MountPoint any of them returned.
SeqPathLists == SeqsUpTo({pDocs, pOther}, 2)

NextSeq ==
    \/ /\ Len(calls) < MaxCalls
       /\ \E paths \in SeqPathLists : MountPointsCall(<<>>, pMnt, paths, FALSE)
    \/ \E c \in 1..Len(calls) :
           \E i \in 1..Len(calls[c].mount.Points) : UnmountCall(c, i)

SpecSeq == InitMount /\ [][NextSeq]_vars

\* ---- LeastNonExistantRoot, Initialize and Discover called by themselves
pRootGD == <<"/", ".", "g", "d">>

pCred == credentialsPath(pW)

StoreCore ==
    { BaseFS,
      With(BaseFS, pW, FileEntry("data")),
      WithW,
      With(WithW, pGD, FileEntry("data")),
      With(WithW, pGD, LinkEntry(pDocs)),
      With(WithW, pGD, LinkEntry(pMissing)),
      WithGD,
      With(WithGD, pCred, FileEntry("credentials")),
      With(WithGD, pCred, FileEntry("garbage")),
      WithMnt }

\* The filesystems these calls start in: the marker of /w missing, a file, a
\* link, or a directory with or without a readable credentials file; with and
\* without a marker directory at the filesystem root.
StoreFS == StoreCore \cup {With(f, pRootGD, DirEntry(0)) : f \in StoreCore}

\* the paths handed to LeastNonExistantRoot: absolute and relative, existing
\* and missing at different depths, under a file, with a trailing separator
ProbePaths ==
    { pMnt, pGD, pW, pW \o <<"/">>, pOther \o <<"/", "x">>, <<"w", "/", "m">>,
      <<"d">>, pDocs, pRoot, <<>> }

InitPaths == {pW, pHome, pOther}

\* the paths Discover starts from; the last three are relative
StartPaths == {pMnt, pGD, pW, pDocs, pOther, pRoot, <<".">>, <<"d">>, <<>>}

InitStore ==
    /\ fs \in StoreFS
    /\ calls = <<>>
    /\ last = NoOp
    /\ disc = Idle

\* A call of LeastNonExistantRoot
LeastCall(p) ==
    /\ disc.pc # "loop"
    /\ last' = [op |-> "Least", arg |-> p, ret |-> LeastNonExistantRoot(fs, p)]
    /\ disc' = Idle
    /\ UNCHANGED <<fs, calls>>

InitializeReturns(absPath, r) ==
    /\ fs' = r.fs
    /\ last' = [op |-> "Initialize", absPath |-> absPath, pathGD |-> r.pathGD,
                firstInit |-> r.firstInit, c |-> r.c, err |-> r.err, pre |-> fs]
    /\ disc' = Idle
    /\ UNCHANGED calls

\* A call of Initialize
InitializeCall(absPath) ==
    /\ disc.pc # "loop"
    /\ InitializeReturns(absPath, Initialize(fs, absPath))

\* Discover is entered: p := currentAbsPath
DiscoverStart(currentAbsPath) ==
    /\ disc.pc # "loop"
    /\ disc' = [pc |-> "loop", start |-> currentAbsPath, p |-> currentAbsPath,
                iter |-> 0, beyond |-> FALSE, context |-> NilContext,
                err |-> "nil"]
    /\ last' = [op |-> "Discover"]
    /\ UNCHANGED <<fs, calls>>

\* The step of the walk when the marker was not found at p; iter counts the
\* iterations that went on to a parent.  A relative path grows by one ".."
\* each time: once it would be longer than MaxWalkLen it stands above the
\* filesystem root, where every longer one resolves to the same directory,
\* and the model keeps p and notes that the walk is beyond what it tracks.
DiscoverUp(newPath) ==
    IF disc.p = newPath
    THEN disc' = [disc EXCEPT !.pc = "done", !.err = "noContext"]
    ELSE IF ~IsAbs(newPath) /\ Len(newPath) > MaxWalkLen
    THEN disc' = [disc EXCEPT !.beyond = TRUE]
    ELSE disc' = [disc EXCEPT !.p = newPath, !.iter = @ + 1]

\* One iteration of Discover's loop, with the return that follows its break
DiscoverIter ==
    /\ disc.pc = "loop"
    /\ IF DiscoverFound(fs, disc.p)
       THEN disc' = [disc EXCEPT !.pc = "done", !.context = ContextOf(disc.p),
                                 !.err = ContextRead(fs, disc.p)]
       ELSE DiscoverUp(ParentPath(disc.p))
    /\ UNCHANGED <<fs, calls, last>>

NextStore ==
    \/ \E p \in ProbePaths : LeastCall(p)
    \/ \E absPath \in InitPaths : InitializeCall(absPath)
    \/ \E start \in StartPaths : DiscoverStart(start)
    \/ DiscoverIter

SpecStore == InitStore /\ [][NextStore]_vars

\* ------------------------------------------------------------ claims
\* What the claims speak of, said without the operators of MountPoints.

\* the path string of the first k names of an absolute path
AncestorStr(names, k) == <<"/">> \o JoinNames(SubSeq(names, 1, k))

\* the highest ancestor-or-self of the absolute path s that does not exist in f
HighestMissing(f, s) ==
    LET names == Components(s)
        k == CHOOSE i \in 1..Len(names) :
                 /\ ~StatOK(f, AncestorStr(names, i))
                 /\ \A j \in 1..(i - 1) : StatOK(f, AncestorStr(names, j))
    IN  AncestorStr(names, k)

\* contextAbsPath/<base name of the source>
LinkPath(k, source) == k.contextAbsPath \o <<"/">> \o Base(source)

FirstIndex(paths, x) ==
    CHOOSE i \in 1..Len(paths) : paths[i] = x /\ \A j \in 1..(i - 1) : paths[j] # x

\* The i-th path of call k is the first occurrence of its string, exists, is
\* not hidden (or hidden ones are included), and its link can be made or is
\* there already: the mount root is a directory.
Qualifies(k, i) ==
    /\ i <= Len(k.fsAt)
    /\ \A j \in 1..(i - 1) : k.paths[j] # k.paths[i]
    /\ StatOK(k.fsAt[i], k.paths[i])
    /\ k.hidden \/ Base(k.paths[i])[1] # "."
    /\ StatIsDir(k.fsAt[i], k.contextAbsPath)

RECURSIVE QualifyingFrom(_, _)
QualifyingFrom(k, i) ==
    IF i > Len(k.paths) THEN <<>>
    ELSE (IF Qualifies(k, i) THEN <<k.paths[i]>> ELSE <<>>) \o QualifyingFrom(k, i + 1)

AbsPathsOf(points) == [j \in 1..Len(points) |-> points[j].AbsPath]

AllPoints(k) == 1..Len(k.mount.Points)

\* C1: when contextAbsPath did not exist and MountPoints returned a Mount,
\* unmounting every MountPoint and removing ShortestMountRoot leaves the
\* filesystem exactly as it was before the call.
C1_TeardownExact ==
    \A c \in 1..Len(calls) :
        ( /\ ~StatOK(calls[c].pre, calls[c].contextAbsPath)
          /\ ~calls[c].mount.nil
          /\ calls[c].un = AllPoints(calls[c])
          /\ calls[c].rootRemoved )
        => fs = calls[c].pre

C1_Witness ==
    \E c \in 1..Len(calls) :
        /\ ~StatOK(calls[c].pre, calls[c].contextAbsPath)
        /\ Len(calls[c].mount.Points) >= 2
        /\ \E i \in AllPoints(calls[c]) : calls[c].mount.Points[i].CanClean
        /\ calls[c].un = AllPoints(calls[c])
        /\ calls[c].rootRemoved

\* C3: a returned MountPoint has CanClean exactly when this call created the
\* link at its MountPath, contextAbsPath/<base name>: no entry was there when
\* the source was processed and the call's link to the source is there after
\* it; with an entry there already the MountPoint is returned with CanClean
\* false.
C3_CanCleanIffCreated ==
    last.op = "MountPoints" =>
        LET k == calls[last.call]
        IN  \A j \in AllPoints(k) :
                LET pt == k.mount.Points[j]
                    before == k.fsAt[FirstIndex(k.paths, pt.AbsPath)]
                    made == /\ ~LstatOK(before, pt.MountPath)
                            /\ LstatOK(fs, pt.MountPath)
                            /\ fs[Lstat(fs, pt.MountPath).node]
                                   = Entry("link", pt.AbsPath, "", last.call)
                IN  /\ pt.MountPath = LinkPath(k, pt.AbsPath)
                    /\ pt.CanClean <=> made
                    /\ ~pt.CanClean <=> LstatOK(before, pt.MountPath)

C3_Witness ==
    /\ last.op = "MountPoints"
    /\ \E i, j \in AllPoints(calls[last.call]) :
           /\ calls[last.call].mount.Points[i].CanClean
           /\ ~calls[last.call].mount.Points[j].CanClean
           /\ calls[last.call].mount.Points[i].MountPath
                  = calls[last.call].mount.Points[j].MountPath

\* C4: when an entry was at contextAbsPath/<base name> before the MountPoints
\* call, Unmount on the MountPoint of that source returns no error and leaves
\* the filesystem as it was; the entry is still there.
C4_CollisionSafe ==
    last.op = "Unmount" =>
        LET k == calls[last.call]
            pt == k.mount.Points[last.point]
        IN  LstatOK(k.pre, LinkPath(k, pt.AbsPath)) =>
                /\ last.err = "nil"
                /\ fs = last.pre
                /\ LstatOK(fs, LinkPath(k, pt.AbsPath))

C4_Witness ==
    /\ last.op = "Unmount"
    /\ LstatOK(calls[last.call].pre,
               LinkPath(calls[last.call],
                        calls[last.call].mount.Points[last.point].AbsPath))
    /\ calls[last.call].pre[Lstat(calls[last.call].pre,
           calls[last.call].mount.Points[last.point].MountPath).node].kind = "file"

\* C5: the MountPoints returned are, in input order, one for the first
\* occurrence of each source path that exists, is not hidden unless hidden
\* ones are included, and whose link was made or was there already.
C5_PointsAreQualifying ==
    \A c \in 1..Len(calls) :
        AbsPathsOf(calls[c].mount.Points) = QualifyingFrom(calls[c], 1)

C5_Witness ==
    \E c \in 1..Len(calls) :
        /\ ~calls[c].hidden
        /\ \E i, j \in 1..Len(calls[c].paths) :
               /\ i < j
               /\ calls[c].paths[i] = calls[c].paths[j]
               /\ Qualifies(calls[c], i)
        /\ \E i \in 1..Len(calls[c].paths) :
               /\ calls[c].paths[i] = pSecret
               /\ \E j \in (i + 1)..Len(calls[c].paths) : Qualifies(calls[c], j)
        /\ Len(calls[c].mount.Points) = 1

\* C6 as stated: with a Mount returned, if contextAbsPath existed before the
\* call both fields are empty; if the call created it, CreatedMountDir is
\* contextAbsPath and ShortestMountRoot is the highest ancestor-or-self of
\* contextAbsPath that did not exist; never exactly one of the two is set.
C6_AsStated ==
    \A c \in 1..Len(calls) :
        LET k == calls[c]
        IN  ~k.mount.nil =>
                /\ StatOK(k.pre, k.contextAbsPath) =>
                       k.mount.CreatedMountDir = <<>> /\ k.mount.ShortestMountRoot = <<>>
                /\ ~StatOK(k.pre, k.contextAbsPath) =>
                       /\ k.mount.CreatedMountDir = k.contextAbsPath
                       /\ k.mount.ShortestMountRoot # <<>>
                       /\ k.mount.ShortestMountRoot = HighestMissing(k.pre, k.contextAbsPath)
                /\ (k.mount.CreatedMountDir = <<>>) <=> (k.mount.ShortestMountRoot = <<>>)

\* C6 amended: the same, ShortestMountRoot being that ancestor's path followed
\* by a separator when it is a proper ancestor of contextAbsPath, and
\* contextAbsPath as given when it is contextAbsPath itself.
C6_RootBookkeeping ==
    \A c \in 1..Len(calls) :
        LET k == calls[c]
            top == HighestMissing(k.pre, k.contextAbsPath)
        IN  ~k.mount.nil =>
                /\ StatOK(k.pre, k.contextAbsPath) =>
                       k.mount.CreatedMountDir = <<>> /\ k.mount.ShortestMountRoot = <<>>
                /\ ~StatOK(k.pre, k.contextAbsPath) =>
                       /\ k.mount.CreatedMountDir = k.contextAbsPath
                       /\ k.mount.ShortestMountRoot # <<>>
                       /\ k.mount.ShortestMountRoot =
                              IF top = k.contextAbsPath THEN top ELSE top \o <<"/">>
                /\ (k.mount.CreatedMountDir = <<>>) <=> (k.mount.ShortestMountRoot = <<>>)

C6_Witness ==
    \E c \in 1..Len(calls) :
        /\ ~calls[c].mount.nil
        /\ calls[c].mount.CreatedMountDir = pMnt
        /\ calls[c].mount.ShortestMountRoot = pGD \o <<"/">>

\* C8: when no source path yields a MountPoint, MountPoints returns no Mount,
\* also when it found the mount root missing and made it before going through
\* the paths: the mount root then stays, a directory.
C8_NilWithoutPoints ==
    \A c \in 1..Len(calls) :
        (\A i \in 1..Len(calls[c].paths) : ~Qualifies(calls[c], i)) =>
            /\ calls[c].mount.nil
            /\ (~StatOK(calls[c].pre, calls[c].contextAbsPath) /\ calls[c].fsAt # <<>>)
                   => StatIsDir(fs, calls[c].contextAbsPath)

C8_Witness ==
    /\ last.op = "MountPoints"
    /\ calls[last.call].mount.nil
    /\ calls[last.call].paths # <<>>
    /\ ~StatOK(calls[last.call].pre, pW)
    /\ StatIsDir(fs, pMnt)

\* C2: in a sequence of MountPoints and Unmount calls, an Unmount removes
\* only what the MountPoints call that produced its MountPoint created, a link:
\* nothing that was there before that call or that another call created.
C2_UnmountRemovesOwnLink ==
    last.op = "Unmount" =>
        /\ last.removedBy \subseteq {last.call}
        /\ \A n \in DOMAIN last.pre \ DOMAIN fs : last.pre[n].kind = "link"

\* the path one name above a path string: empty for a single relative name
ParentStr(r) ==
    LET names == Components(r)
        upper == JoinNames(SubSeq(names, 1, Len(names) - 1))
    IN  IF IsAbs(r) THEN <<"/">> \o upper ELSE upper

\* a is p or an ancestor of p, name by name
IsAncestorOrSelf(a, p) ==
    /\ IsAbs(a) = IsAbs(p)
    /\ IsPrefix(Components(a), Components(p))

\* what both readings of C7 share: the empty string exactly for a path that
\* exists (or is empty); otherwise an ancestor-or-self of the path on which
\* Stat fails and whose parent is empty or exists
LeastShape(f, p, r) ==
    /\ (r = <<>>) <=> (p = <<>> \/ StatOK(f, p))
    /\ r # <<>> =>
           /\ ~StatOK(f, r)
           /\ IsAncestorOrSelf(r, p)
           /\ ParentStr(r) = <<>> \/ StatOK(f, ParentStr(r))

\* C7 as stated: LeastNonExistantRoot returns the empty string for a path
\* that exists and otherwise the path of the topmost ancestor-or-self that
\* does not exist, its parent existing or empty; for /w/.gd/m with /w absent
\* and / present it returns /w.
C7_AsStated ==
    last.op = "Least" =>
        /\ LeastShape(fs, last.arg, last.ret)
        /\ (last.arg = pMnt /\ ~StatOK(fs, pW) /\ StatOK(fs, pRoot)) => last.ret = pW

\* C7 amended: the same, the path returned being the argument itself or a
\* proper ancestor spelled with a trailing separator, one on which os.Stat
\* fails; for /w/.gd/m with /w absent it returns /w/.
C7_LeastNonExistantRoot ==
    last.op = "Least" =>
        /\ LeastShape(fs, last.arg, last.ret)
        /\ last.ret # <<>> =>
               \/ last.ret = last.arg
               \/ /\ last.ret[Len(last.ret)] = "/"
                  /\ Components(last.ret) # Components(last.arg)
        /\ (last.arg = pMnt /\ ~StatOK(fs, pW) /\ StatOK(fs, pRoot))
               => last.ret = pW \o <<"/">>

C7_Witness ==
    /\ last.op = "Least"
    /\ last.arg = pMnt
    /\ ~StatOK(fs, pW)
    /\ last.ret = pW \o <<"/">>

\* the marker path of the first k names of an absolute path
MarkerStr(names, k) ==
    IF k = 0 THEN <<"/">> \o GDDirSuffix
    ELSE AncestorStr(names, k) \o <<"/">> \o GDDirSuffix

SetMax(S) == CHOOSE x \in S : \A y \in S : y <= x

\* Discover has returned from an absolute starting path: a Context rooted at
\* the nearest ancestor-or-self holding a marker that is a directory, or the
\* no-context error when there is none.
DiscoverResultAbs ==
    (disc.pc = "done" /\ IsAbs(disc.start)) =>
        LET names == Components(disc.start)
            hits == {k \in 0..Len(names) : StatIsDir(fs, MarkerStr(names, k))}
        IN  IF hits = {}
            THEN disc.context.nil /\ disc.err = "noContext"
            ELSE /\ ~disc.context.nil
                 /\ disc.context.AbsPath = AncestorStr(names, SetMax(hits))
                 /\ disc.err # "noContext"

\* how many directories a starting path lies below the filesystem root
DepthOf(start) ==
    Len(CleanNames((IF IsAbs(start) THEN <<>> ELSE Cwd) \o Components(start),
                   <<>>, TRUE))

\* Discover's walk takes one step up for each directory between the starting
\* path and the filesystem root, and no more: the loop has returned by then.
\* (DiscoverIter is enabled whenever the loop runs, so the loop cannot stop
\* short of returning either.)
WalkEndsAtRoot ==
    disc.pc = "loop" => ~disc.beyond /\ disc.iter <= DepthOf(disc.start)

MarkerOf(absPath) == absPath \o <<"/">> \o GDDirSuffix

\* the empty-credential record is in the marker directory
RecordWritten(f, absPath) ==
    LET rd == ReadFile(f, MarkerOf(absPath) \o <<"/">> \o credentialsName)
    IN  rd.err = "nil" /\ rd.data = "emptyCredentials"

\* C10: what Initialize does follows from the marker path absPath/.gd before
\* the call.  Absent: the marker directory is made, the empty-credential
\* record written, firstInit true.  A directory: the record written, firstInit
\* false.  Not a directory: a not-a-directory error, nothing made or written.
\* Stat failing for another reason than non-existence: a non-nil error,
\* nothing made or written.  firstInit is true exactly when the marker did not
\* exist.
C10_InitializeOutcome ==
    last.op = "Initialize" =>
        LET marker == MarkerOf(last.absPath)
            st == Stat(last.pre, marker)
        IN  /\ (st.err = "ENOENT" /\ ~LstatOK(last.pre, marker)) =>
                   /\ last.firstInit /\ last.err = "nil"
                   /\ StatIsDir(fs, marker) /\ RecordWritten(fs, last.absPath)
            /\ (st.err = "nil" /\ last.pre[st.node].kind = "dir") =>
                   /\ ~last.firstInit /\ last.err = "nil"
                   /\ RecordWritten(fs, last.absPath)
            /\ (st.err = "nil" /\ last.pre[st.node].kind # "dir") =>
                   last.err = "notADirectory" /\ fs = last.pre
            /\ st.err \notin {"nil", "ENOENT"} => last.err # "nil" /\ fs = last.pre
            /\ last.firstInit <=> st.err = "ENOENT"

====
